---------------------------- MODULE Spec2Model ----------------------------
(***************************************************************************)
(* A model of new_file.py: the function process_data, executed line by     *)
(* line on a heap of list objects, and the class DataProcessor.            *)
(*                                                                         *)
(* A callback is a function from elements to results; a result is either   *)
(* a returned value or a raised error.  A list is an object on the heap,   *)
(* named by a reference, as in Python: `filtered_data=[]` allocates a new  *)
(* object and `append` changes the object the reference names.             *)
(***************************************************************************)
EXTENDS Integers, Sequences, FiniteSets, TLC

\* Elements of the input are 1..MaxElem; inputs have at most MaxLen elements.
MaxElem == 2
MaxLen == 2

Elem == 1..MaxElem

SeqsUpTo(S, n) == UNION {[1..k -> S] : k \in 0..n}

\* The result of one callback invocation.
Returns(v) == [kind |-> "value", value |-> v]
Raises(fn, x) == [kind |-> "raise", error |-> [by |-> fn, arg |-> x]]

\* Every predicate on Elem that, per element, answers True, answers False or raises.
FilterFuncs ==
    {[x \in Elem |-> IF b[x] = "raise" THEN Raises("filter_func", x)
                     ELSE Returns(b[x] = "True")] :
        b \in [Elem -> {"True", "False", "raise"}]}

\* Every transform on Elem that, per element, returns an element or raises.
TransformFuncs ==
    {[x \in Elem |-> IF u[x] = 0 THEN Raises("transform_func", x)
                     ELSE Returns(u[x])] :
        u \in [Elem -> Elem \cup {0}]}

\* The scenario data=[1,2,3,4,5], p=lambda x: x%2==0, t=lambda x: x*10.
ScenarioData == <<1, 2, 3, 4, 5>>
ScenarioFilter == [x \in 1..5 |-> Returns(x % 2 = 0)]
ScenarioTransform == [x \in 1..5 |-> Returns(x * 10)]

\* The argument triples a caller passes.
Calls ==
    {<<d, f, t>> : d \in SeqsUpTo(Elem, MaxLen), f \in FilterFuncs, t \in TransformFuncs}
    \cup {<<ScenarioData, ScenarioFilter, ScenarioTransform>>}

VARIABLES
    pc,             \* the line process_data is at, or idle / returned / raised
    heap,           \* the list objects alive: reference -> contents
    data_list,      \* argument: reference to the input list
    filter_func,    \* argument
    transform_func, \* argument
    filtered_data,  \* local: reference to the accumulator
    idx,            \* the for loop's list iterator: elements consumed so far
    item,           \* local, <<>> while unbound
    transformed,    \* local, <<>> while unbound
    outcome,        \* what the caller has received from the last call
    trace,          \* history: the callback invocations of the current call
    data0,          \* history: the input's contents when the call began
    prev_kind,      \* history: how the call before the current one ended
    dp_pc,          \* DataProcessor: where the instance's process call is
    self_config,    \* DataProcessor: self.config
    self_results,   \* DataProcessor: self.results
    dp_data,        \* DataProcessor.process: argument data
    dp_idx,         \* DataProcessor.process: the for loop's iterator
    dp_item,        \* DataProcessor.process: local item
    dp_outcome,     \* DataProcessor.process: what the caller received
    dp_prev_kind    \* history: how the process call before the current one ended

fvars == <<pc, heap, data_list, filter_func, transform_func, filtered_data, idx,
           item, transformed, outcome, trace, data0, prev_kind>>
dvars == <<dp_pc, self_config, self_results, dp_data, dp_idx, dp_item,
           dp_outcome, dp_prev_kind>>
vars == <<fvars, dvars>>

NoOutcome == [kind |-> "none"]
NoFunc == <<>>

Init ==
    /\ pc = "idle"
    /\ heap = <<>>
    /\ data_list = "None"
    /\ filter_func = NoFunc
    /\ transform_func = NoFunc
    /\ filtered_data = "None"
    /\ idx = 0
    /\ item = <<>>
    /\ transformed = <<>>
    /\ outcome = NoOutcome
    /\ trace = <<>>
    /\ data0 = <<>>
    /\ prev_kind = "none"
    /\ dp_pc = "unconstructed"
    /\ self_config = {}
    /\ self_results = <<>>
    /\ dp_data = <<>>
    /\ dp_idx = 0
    /\ dp_item = <<>>
    /\ dp_outcome = NoOutcome
    /\ dp_prev_kind = "none"

-----------------------------------------------------------------------------
(* process_data *)

\* Mutant: the accumulator is the input list itself (filtered_data=data_list).
NewListRef_Alias == "in"

\* The reference `filtered_data=[]` binds: a new object, not the input.
NewListRef == "out"

\* Mutant: the accumulator is one list made once and used by every call (a
\* default argument filtered_data=[]), so it starts with what is already in it.
FreshList_Stale == IF NewListRef \in DOMAIN heap THEN heap[NewListRef] ELSE <<>>

\* `[]`: the contents of a newly created list.
FreshList == <<>>

\* Mutant: the error is caught and another is raised in its place.
Propagate_Wrapped(e) == [kind |-> "raise", error |-> [by |-> "RuntimeError", arg |-> e.arg]]

\* An error raised by a callback reaches the caller as it is.
Propagate(e) == [kind |-> "raise", error |-> e]

\* Mutant: `if not v:`.
Truthy_Negated(v) == v = FALSE

\* Mutant: the test is dropped, every element is transformed.
Truthy_Always(v) == TRUE

\* `if v:` for the value a predicate returned.
Truthy(v) == v = TRUE

\* The call is over: its frame is gone and the caller lets go of the input. What
\* the caller received stays, and so does the list object the call allocated.
Release ==
    /\ pc \in {"returned", "raised"}
    /\ pc' = "idle"
    /\ data_list' = "None"
    /\ filter_func' = NoFunc
    /\ transform_func' = NoFunc
    /\ filtered_data' = "None"
    /\ idx' = 0
    /\ item' = <<>>
    /\ transformed' = <<>>
    /\ trace' = <<>>
    /\ data0' = <<>>
    /\ prev_kind' = "none"
    /\ heap' = [r \in DOMAIN heap \ {data_list} |-> heap[r]]
    /\ UNCHANGED <<outcome, dvars>>

\* Lines 1-2: bind the arguments, filtered_data=[].
Call ==
    /\ pc = "idle"
    /\ \E c \in Calls :
        /\ data_list' = "in"
        /\ filter_func' = c[2]
        /\ transform_func' = c[3]
        /\ filtered_data' = NewListRef
        /\ heap' = ("in" :> c[1]) @@ (NewListRef :> FreshList)
        /\ data0' = c[1]
    /\ idx' = 0
    /\ item' = <<>>
    /\ transformed' = <<>>
    /\ trace' = <<>>
    /\ prev_kind' = outcome.kind
    /\ outcome' = NoOutcome
    /\ pc' = "for"
    /\ UNCHANGED dvars

\* Mutant: the iterator steps over the element after the one it yields.
ForNext_SkipsOne ==
    /\ pc = "for"
    /\ IF idx < Len(heap[data_list])
       THEN /\ item' = <<heap[data_list][idx + 1]>>
            /\ idx' = idx + 2
            /\ pc' = "if"
       ELSE /\ pc' = "return"
            /\ UNCHANGED <<item, idx>>
    /\ UNCHANGED <<heap, data_list, filter_func, transform_func, filtered_data,
                   transformed, outcome, trace, data0, prev_kind, dvars>>

\* Mutant: the iterator yields an element without moving past it.
ForNext_NoAdvance ==
    /\ pc = "for"
    /\ IF idx < Len(heap[data_list])
       THEN /\ item' = <<heap[data_list][idx + 1]>>
            /\ pc' = "if"
            /\ UNCHANGED idx
       ELSE /\ pc' = "return"
            /\ UNCHANGED <<item, idx>>
    /\ UNCHANGED <<heap, data_list, filter_func, transform_func, filtered_data,
                   transformed, outcome, trace, data0, prev_kind, dvars>>

\* Line 3: the list iterator yields the next element, or the loop ends.
ForNext ==
    /\ pc = "for"
    /\ IF idx < Len(heap[data_list])
       THEN /\ item' = <<heap[data_list][idx + 1]>>
            /\ idx' = idx + 1
            /\ pc' = "if"
       ELSE /\ pc' = "return"
            /\ UNCHANGED <<item, idx>>
    /\ UNCHANGED <<heap, data_list, filter_func, transform_func, filtered_data,
                   transformed, outcome, trace, data0, prev_kind, dvars>>

\* Mutant: a predicate that raises is taken to reject (try/except around the test).
Filter_SwallowsRaise ==
    /\ pc = "if"
    /\ trace' = Append(trace, [fn |-> "filter_func", index |-> idx - 1, arg |-> item[1]])
    /\ LET r == filter_func[item[1]] IN
       pc' = IF r.kind = "value" /\ Truthy(r.value) THEN "transform" ELSE "for"
    /\ UNCHANGED <<heap, data_list, filter_func, transform_func, filtered_data, idx,
                   item, transformed, outcome, data0, prev_kind, dvars>>

\* Line 4: if filter_func(item):
Filter ==
    /\ pc = "if"
    /\ trace' = Append(trace, [fn |-> "filter_func", index |-> idx - 1, arg |-> item[1]])
    /\ LET r == filter_func[item[1]] IN
       IF r.kind = "raise"
       THEN /\ outcome' = Propagate(r.error)
            /\ pc' = "raised"
       ELSE /\ pc' = IF Truthy(r.value) THEN "transform" ELSE "for"
            /\ UNCHANGED outcome
    /\ UNCHANGED <<heap, data_list, filter_func, transform_func, filtered_data, idx,
                   item, transformed, data0, prev_kind, dvars>>

\* Line 5: transformed=transform_func(item)
Transform ==
    /\ pc = "transform"
    /\ trace' = Append(trace, [fn |-> "transform_func", index |-> idx - 1, arg |-> item[1]])
    /\ LET r == transform_func[item[1]] IN
       IF r.kind = "raise"
       THEN /\ outcome' = Propagate(r.error)
            /\ pc' = "raised"
            /\ UNCHANGED transformed
       ELSE /\ transformed' = <<r.value>>
            /\ pc' = "append"
            /\ UNCHANGED outcome
    /\ UNCHANGED <<heap, data_list, filter_func, transform_func, filtered_data, idx,
                   item, data0, prev_kind, dvars>>

\* Mutant: filtered_data.insert(0,transformed)
AppendStep_Prepend ==
    /\ pc = "append"
    /\ heap' = [heap EXCEPT ![filtered_data] = <<transformed[1]>> \o @]
    /\ pc' = "for"
    /\ UNCHANGED <<data_list, filter_func, transform_func, filtered_data, idx, item,
                   transformed, outcome, trace, data0, prev_kind, dvars>>

\* Line 6: filtered_data.append(transformed)
AppendStep ==
    /\ pc = "append"
    /\ heap' = [heap EXCEPT ![filtered_data] = Append(@, transformed[1])]
    /\ pc' = "for"
    /\ UNCHANGED <<data_list, filter_func, transform_func, filtered_data, idx, item,
                   transformed, outcome, trace, data0, prev_kind, dvars>>

\* Line 7: return filtered_data
Return ==
    /\ pc = "return"
    /\ outcome' = [kind |-> "return", value |-> heap[filtered_data]]
    /\ pc' = "returned"
    /\ UNCHANGED <<heap, data_list, filter_func, transform_func, filtered_data, idx,
                   item, transformed, trace, data0, prev_kind, dvars>>

\* One step of a process_data call in progress.
Step == ForNext \/ Filter \/ Transform \/ AppendStep \/ Return

-----------------------------------------------------------------------------
(* DataProcessor *)

\* The values a config may be: any set of option numbers.
Configs == SUBSET Elem

\* Mutant: the class also defines validate and transform.
ClassAttrs_WithMethods == {"__init__", "process", "validate", "transform"}

\* What the class body defines, and what __init__ sets on the instance.
ClassAttrs == {"__init__", "process"}
InstanceAttrs == {"config", "results"}

\* self.<name> finds an instance attribute or a class attribute.
HasAttr(name) == name \in InstanceAttrs \cup ClassAttrs

\* What a failed self.<name> raises.
AttributeError(name) ==
    [kind |-> "raise", error |-> [by |-> "AttributeError", arg |-> name]]

\* Falling off the end of process returns None.
ReturnsNone == [kind |-> "return", value |-> "None"]

\* Lines 10-12: DataProcessor(config)
DP_New ==
    /\ dp_pc = "unconstructed"
    /\ \E config \in Configs : self_config' = config
    /\ self_results' = <<>>
    /\ dp_pc' = "ready"
    /\ UNCHANGED <<dp_data, dp_idx, dp_item, dp_outcome, dp_prev_kind, fvars>>

\* Line 14: self.process(data) is entered.
DP_Process ==
    /\ dp_pc \in {"ready", "returned", "raised"}
    /\ \E data \in SeqsUpTo(Elem, MaxLen) : dp_data' = data
    /\ dp_idx' = 0
    /\ dp_item' = <<>>
    /\ dp_prev_kind' = dp_outcome.kind
    /\ dp_outcome' = NoOutcome
    /\ dp_pc' = "for"
    /\ UNCHANGED <<self_config, self_results, fvars>>

\* Line 15: the iterator yields the next element, or process falls off its end.
DP_ForNext ==
    /\ dp_pc = "for"
    /\ IF dp_idx < Len(dp_data)
       THEN /\ dp_item' = <<dp_data[dp_idx + 1]>>
            /\ dp_idx' = dp_idx + 1
            /\ dp_pc' = "body"
            /\ UNCHANGED dp_outcome
       ELSE /\ dp_outcome' = ReturnsNone
            /\ dp_pc' = "returned"
            /\ UNCHANGED <<dp_item, dp_idx>>
    /\ UNCHANGED <<self_config, self_results, dp_data, dp_prev_kind, fvars>>

\* Lines 16-18: the loop body.  self.validate and self.transform are looked up
\* on the instance; what a method found there would answer is not in the source,
\* so it is any answer.
DP_Body ==
    /\ dp_pc = "body"
    /\ IF ~HasAttr("validate")
       THEN /\ dp_outcome' = AttributeError("validate")
            /\ dp_pc' = "raised"
            /\ UNCHANGED self_results
       ELSE \E ok \in BOOLEAN :
              IF ~ok
              THEN /\ dp_pc' = "for"
                   /\ UNCHANGED <<self_results, dp_outcome>>
              ELSE IF ~HasAttr("transform")
              THEN /\ dp_outcome' = AttributeError("transform")
                   /\ dp_pc' = "raised"
                   /\ UNCHANGED self_results
              ELSE \E processed \in Elem :
                     /\ self_results' = Append(self_results, processed)
                     /\ dp_pc' = "for"
                     /\ UNCHANGED dp_outcome
    /\ UNCHANGED <<self_config, dp_data, dp_idx, dp_item, dp_prev_kind, fvars>>

-----------------------------------------------------------------------------
Next == Call \/ ForNext \/ Filter \/ Transform \/ AppendStep \/ Return \/ Release

Spec == Init /\ [][Next]_vars

NextDP == DP_New \/ DP_Process \/ DP_ForNext \/ DP_Body

SpecDP == Init /\ [][NextDP]_vars

\* One call, from its entry to its end.
NextCall == Call \/ ForNext \/ Filter \/ Transform \/ AppendStep \/ Return

\* A call in progress keeps executing: process_data is one synchronous call.
FairSpec == Init /\ [][NextCall]_vars /\ WF_vars(Step)

-----------------------------------------------------------------------------
(* Properties *)

Done == pc \in {"returned", "raised"}

\* Whether predicate f accepts x (answers True, without raising).
Accepts(f, x) == f[x].kind = "value" /\ f[x].value = TRUE

\* What the callback invocation recorded in trace entry e answered.
Result(e) == IF e.fn = "filter_func" THEN filter_func[e.arg] ELSE transform_func[e.arg]

RaisingEntries == {k \in DOMAIN trace : Result(trace[k]).kind = "raise"}

AlwaysTrue(f) == \A x \in DOMAIN f : f[x] = Returns(TRUE)
AlwaysFalse(f) == \A x \in DOMAIN f : f[x] = Returns(FALSE)
Identity(t) == \A x \in DOMAIN t : t[x] = Returns(x)

InScenario ==
    /\ data0 = ScenarioData
    /\ filter_func = ScenarioFilter
    /\ transform_func = ScenarioTransform

\* C1: a call that returns delivers a sequence as long as the number of input
\* elements the predicate accepts, whose k-th element is the transform of the
\* k-th accepted input element, in input order; the scenario [1,2,3,4,5],
\* is-even, times-10 gives [20,40].
C1_FilterThenMap ==
    pc = "returned" =>
        LET acc == SelectSeq(data0, LAMBDA x : Accepts(filter_func, x)) IN
        /\ outcome.kind = "return"
        /\ Len(outcome.value) =
               Cardinality({i \in DOMAIN data0 : Accepts(filter_func, data0[i])})
        /\ Len(outcome.value) = Len(acc)
        /\ \A k \in 1..Len(acc) : outcome.value[k] = transform_func[acc[k]].value
        /\ (InScenario => outcome.value = <<20, 40>>)

C1_Witness ==
    /\ pc = "returned"
    /\ InScenario
    /\ outcome.value = <<20, 40>>

\* C2: when a callback raises, the call ends raised, the caller receives exactly
\* the error the callback raised and nothing else (no sequence, not even the
\* accumulator built so far); a call that returns a sequence had no callback raise.
C2_ErrorUnwrapped ==
    /\ (RaisingEntries # {} =>
            /\ pc = "raised"
            /\ outcome = [kind |-> "raise", error |-> Result(trace[Len(trace)]).error])
    /\ (pc = "raised" => RaisingEntries # {} /\ DOMAIN outcome = {"kind", "error"})
    /\ (pc = "returned" => RaisingEntries = {})

\* transform_func raised on the 2nd accepted element: one result was accumulated.
C2_Witness ==
    /\ pc = "raised"
    /\ trace[Len(trace)].fn = "transform_func"
    /\ Len(heap[filtered_data]) = 1
    /\ outcome.error = [by |-> "transform_func", arg |-> item[1]]

\* C3: all through a call, and after it returned or raised, the input list holds
\* what it held when the call began; the accumulator is another object, and the
\* call's heap holds only these two.
C3_InputUnchanged ==
    pc # "idle" =>
        /\ heap[data_list] = data0
        /\ filtered_data # data_list
        /\ DOMAIN heap = {data_list, filtered_data}

\* The call wrote to its accumulator and then ended by filter_func raising.
C3_Witness ==
    /\ pc = "raised"
    /\ trace[Len(trace)].fn = "filter_func"
    /\ heap[filtered_data] # <<>>
    /\ heap[data_list] = data0

\* C4: with a predicate that accepts everything and the identity transform the
\* call does not raise, and returns a sequence equal to the input.
C4_Identity ==
    (pc # "idle" /\ AlwaysTrue(filter_func) /\ Identity(transform_func)) =>
        /\ pc # "raised"
        /\ (pc = "returned" => outcome = [kind |-> "return", value |-> data0])

C4_Witness ==
    /\ pc = "returned"
    /\ AlwaysTrue(filter_func)
    /\ Identity(transform_func)
    /\ data0 = <<2, 1>>
    /\ outcome.value = <<2, 1>>

\* C5: with a predicate that rejects everything the transform is never invoked,
\* whatever it is, the call does not raise, and it returns the empty sequence.
C5_AlwaysFalse ==
    (pc # "idle" /\ AlwaysFalse(filter_func)) =>
        /\ pc \notin {"raised", "transform", "append"}
        /\ \A k \in DOMAIN trace : trace[k].fn # "transform_func"
        /\ (pc = "returned" => outcome = [kind |-> "return", value |-> <<>>])

\* A transform that raises on every element, on a non-empty input.
C5_Witness ==
    /\ pc = "returned"
    /\ AlwaysFalse(filter_func)
    /\ \A x \in DOMAIN transform_func : transform_func[x].kind = "raise"
    /\ Len(data0) >= 2

\* The callback invocations of a call on which nothing raises, for the first n
\* elements: filter_func on each element in turn, followed at once by
\* transform_func on that element when it was accepted.
RECURSIVE ExpectedTrace(_)
ExpectedTrace(n) ==
    IF n = 0 THEN <<>>
    ELSE ExpectedTrace(n - 1)
         \o <<[fn |-> "filter_func", index |-> n - 1, arg |-> data0[n]]>>
         \o (IF Accepts(filter_func, data0[n])
             THEN <<[fn |-> "transform_func", index |-> n - 1, arg |-> data0[n]]>>
             ELSE <<>>)

\* C6: in a call that returns, the callback invocations are exactly: filter_func
\* once on each element at index 0, 1, ..., len-1 in that order, and
\* transform_func once on each accepted element and on no other, after
\* filter_func on that element and before filter_func on the next.
C6_SequentialTrace ==
    pc = "returned" =>
        /\ trace = ExpectedTrace(Len(data0))
        /\ \A i \in DOMAIN data0 :
               Cardinality({k \in DOMAIN trace :
                   trace[k].fn = "filter_func" /\ trace[k].index = i - 1}) = 1
        /\ \A k \in DOMAIN trace :
               trace[k].fn = "transform_func" =>
                   /\ k > 1
                   /\ trace[k - 1].fn = "filter_func"
                   /\ trace[k - 1].index = trace[k].index
                   /\ Accepts(filter_func, trace[k].arg)

\* An accepted element followed by a rejected one.
C6_Witness ==
    /\ pc = "returned"
    /\ Len(trace) = 3
    /\ trace[2].fn = "transform_func"
    /\ trace[3].fn = "filter_func"

\* C7: a callback invocation that raises is the last of its call, which is then
\* over (raised, no step left); no invocation is on a later element, none before
\* it raised, and when it was filter_func that raised, transform_func was not
\* invoked on that element.
C7_AbortsAtOnce ==
    \A k \in RaisingEntries :
        /\ k = Len(trace)
        /\ pc = "raised"
        /\ ~ENABLED Step
        /\ \A j \in 1..(k - 1) :
               /\ trace[j].index <= trace[k].index
               /\ Result(trace[j]).kind = "value"
               /\ (trace[k].fn = "filter_func" => trace[j].index < trace[k].index)

\* A callback raised after an earlier invocation, with an element still to come.
C7_Witness ==
    /\ pc = "raised"
    /\ Len(trace) \in RaisingEntries
    /\ trace[Len(trace)].index + 1 < Len(data0)
    /\ Len(trace) >= 2

\* What a call on data with callbacks f and t delivers, as a function of these
\* three alone; acc is the output built from the part of the input already behind.
RECURSIVE PureResult(_, _, _, _)
PureResult(data, f, t, acc) ==
    IF data = <<>> THEN [kind |-> "return", value |-> acc]
    ELSE LET x == Head(data) IN
         IF f[x].kind = "raise" THEN [kind |-> "raise", error |-> f[x].error]
         ELSE IF ~f[x].value THEN PureResult(Tail(data), f, t, acc)
         ELSE IF t[x].kind = "raise" THEN [kind |-> "raise", error |-> t[x].error]
         ELSE PureResult(Tail(data), f, t, Append(acc, t[x].value))

\* C8: whatever calls came before, returned or aborted, a call's accumulator
\* starts empty and what the call delivers is a function of its own arguments.
C8_NoStateAcrossCalls ==
    /\ (Done => outcome = PureResult(data0, filter_func, transform_func, <<>>))
    /\ (pc = "for" /\ idx = 0 => heap[filtered_data] = <<>>)

\* A call that returns a non-empty sequence right after an aborted call.
C8_Witness ==
    /\ pc = "returned"
    /\ prev_kind = "raise"
    /\ outcome.value # <<>>

\* How many invocations of callback fn the current call has made.
Invocations(fn) == Cardinality({k \in DOMAIN trace : trace[k].fn = fn})

\* What is left of a call: the elements not yet consumed, then the lines left in
\* the current iteration.
Measure ==
    4 * (Len(heap[data_list]) - idx)
    + (CASE pc = "if" -> 5
         [] pc = "transform" -> 4
         [] pc = "append" -> 3
         [] pc = "for" -> 2
         [] pc = "return" -> 1
         [] OTHER -> 0)

\* C9: a call makes at most len(data) predicate and at most len(data) transform
\* invocations, on elements at strictly increasing indices; while it is not over
\* a step is enabled, each step brings it closer to its end, and it does end,
\* returned or raised.
C9_Terminates ==
    /\ [](pc # "idle" =>
            /\ Invocations("filter_func") <= Len(data0)
            /\ Invocations("transform_func") <= Len(data0)
            /\ \A j, k \in DOMAIN trace :
                   (j < k /\ trace[j].fn = trace[k].fn) => trace[j].index < trace[k].index
            /\ Measure >= 0
            /\ (Done \/ ENABLED Step))
    /\ [][Step => Measure' < Measure]_vars
    /\ ((pc # "idle") ~> Done)

\* A call that made every invocation it can make.
C9_Witness ==
    /\ pc = "returned"
    /\ Len(data0) >= 2
    /\ Invocations("filter_func") = Len(data0)
    /\ Invocations("transform_func") = Len(data0)

\* C10: self.results is empty from construction on; a process call on empty data
\* returns None and one on non-empty data raises AttributeError for validate at
\* the first element; process leaves self.config as it is.
C10_ResultsStayEmpty ==
    /\ [](/\ self_results = <<>>
          /\ (dp_pc = "returned" => dp_data = <<>> /\ dp_outcome = ReturnsNone)
          /\ (dp_pc = "raised" =>
                 /\ dp_data # <<>>
                 /\ dp_idx = 1
                 /\ dp_outcome = AttributeError("validate")))
    /\ [][dp_pc # "unconstructed" => self_config' = self_config]_vars

\* A second process call, on non-empty data, after one that raised.
C10_Witness ==
    /\ dp_pc = "raised"
    /\ dp_prev_kind = "raise"
    /\ Len(dp_data) >= 2
    /\ self_results = <<>>
    /\ self_config # {}

=============================================================================
